---- MODULE Spec2Model ----
(***************************************************************************)
(* Model of fuzzy_expert_system.py: a fuzzy expert system that scores      *)
(* respiratory diagnoses.  evaluate_rule is the fuzzy AND (min) of a       *)
(* rule's conditions, infer_diseases the fuzzy OR (max) per diagnosis,     *)
(* defuzzify_diseases the arg-max, and the module body reports the result. *)
(*                                                                         *)
(* Python floats are IEEE-754 binary64.  A float x is modelled exactly as  *)
(* the integer x * 2^56 written in two limbs <<hi, lo>> of base 2^28       *)
(* (x * 2^56 = hi * 2^28 + lo, 0 <= lo < 2^28, hi negative for x < 0), and *)
(* the only arithmetic the program does, "1.0 - val", is modelled as the   *)
(* exact difference rounded to 53 significant bits, ties to even.          *)
(***************************************************************************)
EXTENDS Integers, Sequences, FiniteSets

VARIABLES symptom_values, rules, pc, idx, d, rule_score, disease_scores,
          fuzzy_results, disease, score, outcome

vars == <<symptom_values, rules, pc, idx, d, rule_score, disease_scores,
          fuzzy_results, disease, score, outcome>>

-----------------------------------------------------------------------------
(* Bounds of the generated inputs.                                         *)

\* size of a generated rule base: its rules plus all their conditions
MaxSize == 4

-----------------------------------------------------------------------------
(* binary64 values, in units of 2^-56.                                     *)

LimbBase == 2^28

F_0_0 == <<0, 0>>
F_1_0 == <<268435456, 0>>
F_0_8 == <<214748364, 214748368>>
F_0_4 == <<107374182, 107374184>>
F_0_2 == <<53687091, 53687092>>
F_0_7 == <<187904819, 53687088>>
F_0_6 == <<161061273, 161061272>>
F_0_9 == <<241591910, 107374184>>
F_0_1 == <<26843545, 161061274>>
\* 1.5 and -0.5: values outside [0,1] a caller may pass
F_1_5 == <<402653184, 0>>
F_m0_5 == <<-134217728, 0>>

\* a < b on floats
FLess(a, b) == \/ a[1] < b[1]
               \/ a[1] = b[1] /\ a[2] < b[2]

FLeq(a, b) == a = b \/ FLess(a, b)

\* the exact value -a
FNeg(a) == IF a[2] = 0 THEN <<-a[1], 0>> ELSE <<-a[1] - 1, LimbBase - a[2]>>

\* the exact value a - b (not yet rounded)
ExactDiff(a, b) ==
    IF a[2] >= b[2] THEN <<a[1] - b[1], a[2] - b[2]>>
                    ELSE <<a[1] - b[1] - 1, a[2] - b[2] + LimbBase>>

\* the spacing of binary64 around x, in units of 2^-56: 2^(e-52) for
\* 2^e <= |x| < 2^(e+1)
UlpUnits(x) ==
    LET mh == IF x[1] < 0 THEN FNeg(x)[1] ELSE x[1]
    IN  IF mh >= 2^30 THEN 64
        ELSE IF mh >= 2^29 THEN 32
        ELSE IF mh >= 2^28 THEN 16
        ELSE IF mh >= 2^27 THEN 8
        ELSE IF mh >= 2^26 THEN 4
        ELSE IF mh >= 2^25 THEN 2
        ELSE 1

\* round to nearest binary64, ties to even
RoundToDouble(x) ==
    LET u  == UlpUnits(x)
        q  == x[2] \div u
        r  == x[2] % u
        up == \/ 2 * r > u
              \/ 2 * r = u /\ q % 2 = 1
        lo == (IF up THEN q + 1 ELSE q) * u
    IN  IF lo = LimbBase THEN <<x[1] + 1, 0>> ELSE <<x[1], lo>>

\* the float expression a - b
FSub(a, b) == RoundToDouble(ExactDiff(a, b))

-----------------------------------------------------------------------------
(* The built-in data.                                                      *)

\* Python's None, and the marker of a raised ValueError
None == "None"
ValueError == "ValueError"

SampleSymptoms ==
    [s \in {"fever", "dry_cough", "wet_cough", "sore_throat",
            "nasal_congestion", "muscle_pain", "sneezing"} |->
        CASE s = "fever" -> F_0_8
          [] s = "dry_cough" -> F_0_4
          [] s = "wet_cough" -> F_0_2
          [] s = "sore_throat" -> F_0_7
          [] s = "nasal_congestion" -> F_0_6
          [] s = "muscle_pain" -> F_0_9
          [] s = "sneezing" -> F_0_1]

SampleRules ==
    << [disease |-> "flu",
        conditions |-> << <<"fever", TRUE>>, <<"muscle_pain", TRUE>>,
                          <<"dry_cough", TRUE>> >>],
       [disease |-> "cold",
        conditions |-> << <<"sneezing", TRUE>>, <<"nasal_congestion", TRUE>>,
                          <<"wet_cough", TRUE>> >>],
       [disease |-> "pharyngitis",
        conditions |-> << <<"sore_throat", TRUE>>, <<"fever", TRUE>> >>],
       [disease |-> "cold",
        conditions |-> << <<"sore_throat", TRUE>>, <<"fever", FALSE>>,
                          <<"sneezing", TRUE>> >>],
       [disease |-> "cold",
        conditions |-> << <<"dry_cough", TRUE>>, <<"nasal_congestion", TRUE>>,
                          <<"muscle_pain", FALSE>>, <<"fever", FALSE>> >>] >>

-----------------------------------------------------------------------------
(* The functions.                                                          *)

\* Get with the wrong default: a symptom the mapping lacks counts as 1.0
GetDefaultOne(values, symptom) ==
    IF symptom \in DOMAIN values THEN values[symptom] ELSE F_1_0

\* symptom_values.get(symptom, 0.0)
Get(values, symptom) ==
    IF symptom \in DOMAIN values THEN values[symptom] ELSE F_0_0

\* MinFrom with the comparison turned round: the maximum
RECURSIVE MinFromFlipped(_, _, _)
MinFromFlipped(values, k, best) ==
    IF k > Len(values) THEN best
    ELSE MinFromFlipped(values, k + 1,
                        IF FLess(best, values[k]) THEN values[k] ELSE best)

\* Python's min(values) of a non-empty list: the first minimal item
RECURSIVE MinFrom(_, _, _)
MinFrom(values, k, best) ==
    IF k > Len(values) THEN best
    ELSE MinFrom(values, k + 1,
                 IF FLess(values[k], best) THEN values[k] ELSE best)

PyMin(values) == MinFrom(values, 2, values[1])

\* ConditionValues with the subtraction turned round: val - 1.0
ConditionValuesSwapped(rule, values) ==
    [k \in 1..Len(rule.conditions) |->
        LET val == Get(values, rule.conditions[k][1])
        IN  IF rule.conditions[k][2] THEN val ELSE FSub(val, F_1_0)]

\* ConditionValues with every item clamped to [0,1]
ConditionValuesClamped(rule, values) ==
    [k \in 1..Len(rule.conditions) |->
        LET val == Get(values, rule.conditions[k][1])
            x   == IF rule.conditions[k][2] THEN val ELSE FSub(F_1_0, val)
        IN  IF FLess(x, F_0_0) THEN F_0_0
            ELSE IF FLess(F_1_0, x) THEN F_1_0 ELSE x]

\* the list "values" evaluate_rule builds, one item per condition
ConditionValues(rule, values) ==
    [k \in 1..Len(rule.conditions) |->
        LET symptom == rule.conditions[k][1]
            desired == rule.conditions[k][2]
            val     == Get(values, symptom)
        IN  IF desired THEN val ELSE FSub(F_1_0, val)]

evaluate_rule(rule, values) ==
    LET vs == ConditionValues(rule, values)
    IN  IF vs # <<>> THEN PyMin(vs) ELSE F_0_0

\* a dict is modelled as the sequence of its items <<key, value>> in
\* insertion order
Keys(items) == {items[k][1] : k \in 1..Len(items)}

Position(items, key) == CHOOSE k \in 1..Len(items) : items[k][1] = key

Lookup(items, key) == items[Position(items, key)][2]

\* Python's max(a, b): a unless b is greater
PyMax2(a, b) == IF FLess(a, b) THEN b ELSE a

\* InferStep without the max: a later rule of a label is ignored
InferStepFirstWins(scores, rule, values) ==
    IF rule.disease \notin Keys(scores)
    THEN Append(scores, <<rule.disease, evaluate_rule(rule, values)>>)
    ELSE scores

\* InferStep without the max: a later rule of a label overwrites its score
InferStepLastWins(scores, rule, values) ==
    IF rule.disease \notin Keys(scores)
    THEN Append(scores, <<rule.disease, evaluate_rule(rule, values)>>)
    ELSE [scores EXCEPT ![Position(scores, rule.disease)] =
                            <<rule.disease, evaluate_rule(rule, values)>>]

\* the body of the loop of infer_diseases, for one rule
InferStep(scores, rule, values) ==
    LET dd == rule.disease
        sc == evaluate_rule(rule, values)
    IN  IF dd \notin Keys(scores)
        THEN Append(scores, <<dd, sc>>)
        ELSE [scores EXCEPT ![Position(scores, dd)] =
                                <<dd, PyMax2(Lookup(scores, dd), sc)>>]

RECURSIVE InferFrom(_, _, _, _)
InferFrom(scores, rs, k, values) ==
    IF k > Len(rs) THEN scores
    ELSE InferFrom(InferStep(scores, rs[k], values), rs, k + 1, values)

infer_diseases(values, rs) == InferFrom(<<>>, rs, 1, values)

\* MaxItemFrom with the comparison turned round: an item of minimal score
RECURSIVE MinItemFrom(_, _, _)
MinItemFrom(items, k, best) ==
    IF k > Len(items) THEN best
    ELSE MinItemFrom(items, k + 1,
                     IF FLess(items[k][2], best[2]) THEN items[k] ELSE best)

\* MaxItemFrom replacing on ties: the last item of maximal score
RECURSIVE MaxItemFromLastWins(_, _, _)
MaxItemFromLastWins(items, k, best) ==
    IF k > Len(items) THEN best
    ELSE MaxItemFromLastWins(items, k + 1,
                             IF FLeq(best[2], items[k][2]) THEN items[k] ELSE best)

\* Python's max(items, key=lambda x: x[1]): the first item of maximal score
RECURSIVE MaxItemFrom(_, _, _)
MaxItemFrom(items, k, best) ==
    IF k > Len(items) THEN best
    ELSE MaxItemFrom(items, k + 1,
                     IF FLess(best[2], items[k][2]) THEN items[k] ELSE best)

\* max() of an empty sequence raises ValueError
PyMaxItem(items) ==
    IF items = <<>> THEN <<ValueError, F_0_0>>
    ELSE MaxItemFrom(items, 2, items[1])

\* defuzzify_diseases without the test for an empty mapping
defuzzify_diseases_unguarded(scores) == PyMaxItem(scores)

defuzzify_diseases(scores) ==
    IF scores = <<>> THEN <<None, F_0_0>> ELSE PyMaxItem(scores)

\* truth value of "disease" in "if disease and score > 0"
Truthy(x) == x # None /\ x # ""

\* Report without the test of the score
ReportLabelOnly(dis, sc) ==
    IF Truthy(dis) THEN "most_likely" ELSE "no_known"

\* which of the two messages the module prints last
Report(dis, sc) ==
    IF Truthy(dis) /\ FLess(F_0_0, sc) THEN "most_likely" ELSE "no_known"

-----------------------------------------------------------------------------
(* Generated inputs.                                                       *)

Symptoms == {"fever", "sneezing"}
Labels == {"flu", "cold"}
Values == {F_0_1, F_0_9, F_1_0, F_1_5, F_m0_5}

\* a mapping gives a value to some of the symptoms
SymptomMappings == UNION {[S -> Values] : S \in SUBSET Symptoms}

Conditions == Symptoms \X BOOLEAN

RECURSIVE ConditionLists(_)
ConditionLists(n) ==
    IF n = 0 THEN {<<>>}
    ELSE {Append(cs, c) : cs \in ConditionLists(n - 1), c \in Conditions}

\* the rules with exactly n conditions
RulesOfSize(n) ==
    {[disease |-> l, conditions |-> cs] : l \in Labels, cs \in ConditionLists(n)}

\* the rule bases whose rules and conditions number at most n together
RECURSIVE RuleBases(_)
RuleBases(n) ==
    IF n = 0 THEN {<<>>}
    ELSE {<<>>} \cup
         UNION {{<<r>> \o rest : r \in RulesOfSize(k),
                                 rest \in RuleBases(n - 1 - k)} : k \in 0..(n - 1)}

-----------------------------------------------------------------------------
(* The run of the module: lines 153-163.                                   *)

Start(values, rs) ==
    /\ symptom_values = values
    /\ rules = rs
    /\ pc = "infer"
    /\ idx = 1
    /\ d = None
    /\ rule_score = F_0_0
    /\ disease_scores = <<>>
    /\ fuzzy_results = <<>>
    /\ disease = None
    /\ score = F_0_0
    /\ outcome = None

InitSample == Start(SampleSymptoms, SampleRules)

InitGenerated ==
    \E values \in SymptomMappings, rs \in RuleBases(MaxSize) :
        Start(values, rs)

Init == InitSample \/ InitGenerated

\* one iteration of "for rule in rules" in infer_diseases
InferRule ==
    /\ pc = "infer"
    /\ idx <= Len(rules)
    /\ d' = rules[idx].disease
    /\ rule_score' = evaluate_rule(rules[idx], symptom_values)
    /\ disease_scores' = InferStep(disease_scores, rules[idx], symptom_values)
    /\ idx' = idx + 1
    /\ UNCHANGED <<symptom_values, rules, pc, fuzzy_results, disease, score,
                   outcome>>

\* the loop is over: return disease_scores, bound to fuzzy_results
InferReturn ==
    /\ pc = "infer"
    /\ idx > Len(rules)
    /\ fuzzy_results' = disease_scores
    /\ pc' = "defuzzify"
    /\ UNCHANGED <<symptom_values, rules, idx, d, rule_score, disease_scores,
                   disease, score, outcome>>

\* disease, score = defuzzify_diseases(fuzzy_results)
Defuzzify ==
    /\ pc = "defuzzify"
    /\ LET best == defuzzify_diseases(fuzzy_results)
       IN  IF best[1] = ValueError
           THEN /\ pc' = "raised"
                /\ UNCHANGED <<disease, score>>
           ELSE /\ disease' = best[1]
                /\ score' = best[2]
                /\ pc' = "report"
    /\ UNCHANGED <<symptom_values, rules, idx, d, rule_score, disease_scores,
                   fuzzy_results, outcome>>

\* the final if/else of the module
PrintResult ==
    /\ pc = "report"
    /\ outcome' = Report(disease, score)
    /\ pc' = "done"
    /\ UNCHANGED <<symptom_values, rules, idx, d, rule_score, disease_scores,
                   fuzzy_results, disease, score>>

Next == InferRule \/ InferReturn \/ Defuzzify \/ PrintResult

Spec == Init /\ [][Next]_vars

-----------------------------------------------------------------------------
(* Vocabulary of the properties.                                           *)

\* at least one rule has been evaluated; the last one is LastRule and its
\* score is rule_score
Evaluated == idx > 1
LastRule == rules[idx - 1]

Inferred == pc \in {"defuzzify", "report", "done"}
Selected == pc \in {"report", "done"}

InUnit(x) == FLeq(F_0_0, x) /\ FLeq(x, F_1_0)

InRange(values) == \A s \in DOMAIN values : InUnit(values[s])

\* what one condition contributes: the value of its symptom (0.0 when the
\* mapping has none) if it wants the symptom present, 1 - value if absent
Contribution(c, values) ==
    LET val == IF c[1] \in DOMAIN values THEN values[c[1]] ELSE F_0_0
    IN  IF c[2] THEN val ELSE FSub(F_1_0, val)

Contributions(rule, values) ==
    {Contribution(rule.conditions[k], values) : k \in 1..Len(rule.conditions)}

RulesOf(label) == {k \in 1..Len(rules) : rules[k].disease = label}

ScoresOf(label) ==
    {evaluate_rule(rules[k], symptom_values) : k \in RulesOf(label)}

\* a dict as a function, forgetting the order of its keys
AsMap(items) == [l \in Keys(items) |-> Lookup(items, l)]

\* the sequences that list every element of S once
RECURSIVE Orderings(_)
Orderings(S) ==
    IF S = {} THEN {<<>>}
    ELSE UNION {{<<x>> \o rest : rest \in Orderings(S \ {x})} : x \in S}

\* the permutations of 1..n, for every length a rule base of the model has
OrderingsOfLength ==
    [n \in (0..MaxSize) \cup {Len(SampleRules)} |-> Orderings(1..n)]

Reorderings(n) == OrderingsOfLength[n]

IsSampleRun == symptom_values = SampleSymptoms /\ rules = SampleRules

-----------------------------------------------------------------------------
(* C1: the score evaluate_rule returns for a rule is the minimum of what   *)
(* its conditions contribute (the symptom's value for a present condition, *)
(* 1 - value for an absent one), and 0.0 for a rule with no conditions.    *)
C1_RuleScoreIsMin ==
    Evaluated =>
        LET A == Contributions(LastRule, symptom_values)
        IN  IF LastRule.conditions = <<>>
            THEN rule_score = F_0_0
            ELSE /\ rule_score \in A
                 /\ \A a \in A : FLeq(rule_score, a)

\* a rule of two conditions, one of them absent, whose contributions differ
\* has been evaluated
C1_Witness ==
    /\ Evaluated
    /\ DOMAIN symptom_values = Symptoms
    /\ Len(LastRule.conditions) >= 2
    /\ \E k \in 1..Len(LastRule.conditions) : ~LastRule.conditions[k][2]
    /\ \E a \in Contributions(LastRule, symptom_values) : FLess(rule_score, a)

(* C2: the mapping infer_diseases returns has exactly the labels of the    *)
(* rules as keys, each mapped to the maximum score of the rules carrying   *)
(* it, and every reordering of the rule base gives the same mapping.       *)
C2_InferIsMaxPerLabel ==
    pc = "defuzzify" =>
        /\ Keys(fuzzy_results) = {rules[k].disease : k \in 1..Len(rules)}
        /\ Cardinality(Keys(fuzzy_results)) = Len(fuzzy_results)
        /\ \A l \in Keys(fuzzy_results) :
              /\ Lookup(fuzzy_results, l) \in ScoresOf(l)
              /\ \A x \in ScoresOf(l) : FLeq(x, Lookup(fuzzy_results, l))
        /\ \A p \in Reorderings(Len(rules)) :
              AsMap(infer_diseases(symptom_values,
                                   [k \in 1..Len(rules) |-> rules[p[k]]]))
                  = AsMap(fuzzy_results)

\* two rules of one label were folded, the later one scoring higher
C2_Witness ==
    /\ pc = "defuzzify"
    /\ Len(rules) >= 2
    /\ rules[1].disease = rules[2].disease
    /\ FLess(evaluate_rule(rules[1], symptom_values),
             evaluate_rule(rules[2], symptom_values))

(* C3: when every symptom value lies in [0,1], every rule score and every  *)
(* aggregated score lies in [0,1].                                         *)
C3_ScoresInUnit ==
    InRange(symptom_values) =>
        /\ Evaluated => InUnit(rule_score)
        /\ \A k \in 1..Len(disease_scores) : InUnit(disease_scores[k][2])
        /\ \A k \in 1..Len(fuzzy_results) : InUnit(fuzzy_results[k][2])

\* an in-range run over a rule with no conditions and a rule with an absent
\* condition and a condition on a symptom the mapping lacks
C3_Witness ==
    /\ pc = "defuzzify"
    /\ InRange(symptom_values)
    /\ symptom_values # <<>>
    /\ \E k \in 1..Len(rules) : rules[k].conditions = <<>>
    /\ \E k \in 1..Len(rules) :
          /\ \E j \in 1..Len(rules[k].conditions) : ~rules[k].conditions[j][2]
          /\ \E j \in 1..Len(rules[k].conditions) :
                rules[k].conditions[j][1] \notin DOMAIN symptom_values

(* C4: on a non-empty mapping defuzzify_diseases returns an entry of the   *)
(* mapping whose score is at least every entry's score; on a single-entry  *)
(* mapping it returns that entry.                                          *)
C4_BestIsMaximalEntry ==
    (Selected /\ fuzzy_results # <<>>) =>
        /\ \E k \in 1..Len(fuzzy_results) : fuzzy_results[k] = <<disease, score>>
        /\ \A k \in 1..Len(fuzzy_results) : FLeq(fuzzy_results[k][2], score)
        /\ Len(fuzzy_results) = 1 => <<disease, score>> = fuzzy_results[1]

\* the second of two entries has the higher score and was selected
C4_Witness ==
    /\ pc = "report"
    /\ Len(fuzzy_results) = 2
    /\ FLess(fuzzy_results[1][2], fuzzy_results[2][2])
    /\ disease = fuzzy_results[2][1]

(* C5: with an empty rule base infer_diseases returns the empty mapping,   *)
(* defuzzify_diseases returns (None, 0.0), the run reports "no known       *)
(* disease", and nothing raises.                                           *)
C5_EmptyRuleBase ==
    rules = <<>> =>
        /\ pc # "raised"
        /\ disease_scores = <<>>
        /\ Inferred => fuzzy_results = <<>>
        /\ Selected => disease = None /\ score = F_0_0
        /\ pc = "done" => outcome = "no_known"

\* a run with no rules and some symptoms has ended
C5_Witness ==
    /\ rules = <<>>
    /\ symptom_values # <<>>
    /\ pc = "done"

(* C6: a condition on a symptom the mapping lacks is evaluated as if the   *)
(* symptom had value 0.0: the rule scores what it scores on the mapping    *)
(* extended with that symptom at 0.0, a present condition on it            *)
(* contributes 0.0 and an absent one 1.0.                                  *)
C6_MissingSymptomIsZero ==
    Evaluated =>
        \A k \in 1..Len(LastRule.conditions) :
            LET s == LastRule.conditions[k][1]
            IN  s \notin DOMAIN symptom_values =>
                   /\ rule_score =
                        evaluate_rule(LastRule,
                            [t \in DOMAIN symptom_values \cup {s} |->
                                IF t = s THEN F_0_0 ELSE symptom_values[t]])
                   /\ ConditionValues(LastRule, symptom_values)[k] =
                        IF LastRule.conditions[k][2] THEN F_0_0 ELSE F_1_0
                   /\ Len(LastRule.conditions) = 1 =>
                        rule_score =
                            IF LastRule.conditions[k][2] THEN F_0_0 ELSE F_1_0

\* a rule with an absent condition on a missing symptom and a condition on
\* a symptom the mapping has was evaluated
C6_Witness ==
    /\ Evaluated
    /\ \E k \in 1..Len(LastRule.conditions) :
          /\ LastRule.conditions[k][1] \notin DOMAIN symptom_values
          /\ ~LastRule.conditions[k][2]
    /\ \E k \in 1..Len(LastRule.conditions) :
          LastRule.conditions[k][1] \in DOMAIN symptom_values

(* C7: at the end of the run, a selected score of exactly 0.0 is reported  *)
(* as "no known disease" even when a label was selected, and "most likely  *)
(* disease" is reported only for a selected label with a score above 0.    *)
C7_ZeroScoreReportsNoDisease ==
    pc = "done" =>
        /\ score = F_0_0 => outcome = "no_known"
        /\ outcome = "most_likely" => disease # None /\ FLess(F_0_0, score)

\* every rule has conditions and scored 0.0: a label was selected with score
\* 0.0 and the run reported no disease
C7_Witness ==
    /\ pc = "done"
    /\ \A k \in 1..Len(rules) : rules[k].conditions # <<>>
    /\ disease # None
    /\ score = F_0_0
    /\ outcome = "no_known"

\* 0.09999999999999998, the binary64 value next below 0.1
F_0_1_below == <<26843545, 161061272>>

(* C8 as stated: on the built-in data each of the three cold rules scores  *)
(* 0.1, infer_diseases yields flu 0.4, pharyngitis 0.7 and cold 0.1, and   *)
(* defuzzify_diseases selects pharyngitis with 0.7.                        *)
C8_SampleAsStated ==
    IsSampleRun =>
        /\ (Evaluated /\ d = "cold") => rule_score = F_0_1
        /\ Inferred =>
              AsMap(fuzzy_results) =
                  [l \in {"flu", "pharyngitis", "cold"} |->
                      CASE l = "flu" -> F_0_4
                        [] l = "pharyngitis" -> F_0_7
                        [] l = "cold" -> F_0_1]
        /\ Selected => disease = "pharyngitis" /\ score = F_0_7

(* C8 amended: on the built-in data the first two cold rules score 0.1    *)
(* and the third scores 0.09999999999999998 (its minimum is the float      *)
(* 1.0 - 0.9); infer_diseases yields flu 0.4, pharyngitis 0.7 and          *)
(* cold 0.1, and defuzzify_diseases selects pharyngitis with 0.7.          *)
C8_SampleScores ==
    IsSampleRun =>
        /\ (Evaluated /\ idx - 1 \in {2, 4}) => rule_score = F_0_1
        /\ (Evaluated /\ idx - 1 = 5) => rule_score = F_0_1_below
        /\ (Evaluated /\ idx - 1 = 1) => rule_score = F_0_4
        /\ (Evaluated /\ idx - 1 = 3) => rule_score = F_0_7
        /\ Inferred =>
              AsMap(fuzzy_results) =
                  [l \in {"flu", "pharyngitis", "cold"} |->
                      CASE l = "flu" -> F_0_4
                        [] l = "pharyngitis" -> F_0_7
                        [] l = "cold" -> F_0_1]
        /\ Selected => disease = "pharyngitis" /\ score = F_0_7

\* the run on the built-in data has ended
C8_Witness ==
    /\ IsSampleRun
    /\ pc = "done"
    /\ outcome = "most_likely"

(* C9: symptom values outside [0,1] are neither clamped nor rejected: a    *)
(* rule whose conditions all contribute more than 1 scores more than 1, a  *)
(* rule with a condition contributing less than 0 scores less than 0, and  *)
(* a label's aggregated score is above 1 if one of its rules scores above  *)
(* 1 and below 0 if all of them score below 0.                             *)
C9_OutOfRangePassesThrough ==
    /\ Evaluated =>
          LET A == Contributions(LastRule, symptom_values)
          IN  /\ (A # {} /\ \A a \in A : FLess(F_1_0, a))
                    => FLess(F_1_0, rule_score)
              /\ (\E a \in A : FLess(a, F_0_0)) => FLess(rule_score, F_0_0)
              /\ (Len(LastRule.conditions) = 1 /\ LastRule.conditions[1][2])
                    => rule_score = Get(symptom_values, LastRule.conditions[1][1])
    /\ pc = "defuzzify" =>
          \A l \in Keys(fuzzy_results) :
              /\ (\E k \in RulesOf(l) :
                     /\ rules[k].conditions # <<>>
                     /\ \A a \in Contributions(rules[k], symptom_values) :
                           FLess(F_1_0, a))
                    => FLess(F_1_0, Lookup(fuzzy_results, l))
              /\ (\A k \in RulesOf(l) :
                     \E a \in Contributions(rules[k], symptom_values) :
                         FLess(a, F_0_0))
                    => FLess(Lookup(fuzzy_results, l), F_0_0)

\* one label was given a score above 1 and another a score below 0
C9_Witness ==
    /\ pc = "defuzzify"
    /\ \E l \in Keys(fuzzy_results) : FLess(F_1_0, Lookup(fuzzy_results, l))
    /\ \E l \in Keys(fuzzy_results) : FLess(Lookup(fuzzy_results, l), F_0_0)

\* the index of the first rule of a label
FirstRule(label) ==
    CHOOSE k \in RulesOf(label) : \A j \in RulesOf(label) : k <= j

(* C10: infer_diseases keeps the labels in order of their first rule (a    *)
(* later rule of a label leaves its position alone), and among the labels  *)
(* sharing the maximal score defuzzify_diseases selects the one whose      *)
(* first rule comes earliest in the rule base.                             *)
C10_TieGoesToEarliestLabel ==
    /\ Len(disease_scores) = Cardinality(Keys(disease_scores))
    /\ Keys(disease_scores) = {rules[k].disease : k \in 1..(idx - 1)}
    /\ \A i, j \in 1..Len(disease_scores) :
          i < j => FirstRule(disease_scores[i][1]) < FirstRule(disease_scores[j][1])
    /\ Inferred => fuzzy_results = disease_scores
    /\ (Selected /\ fuzzy_results # <<>>) =>
          LET tied == {l \in Keys(fuzzy_results) :
                          \A m \in Keys(fuzzy_results) :
                              FLeq(Lookup(fuzzy_results, m), Lookup(fuzzy_results, l))}
          IN  /\ disease \in tied
              /\ \A l \in tied : FirstRule(disease) <= FirstRule(l)

\* two labels tie at a score above 0 and the first of them was selected
C10_Witness ==
    /\ pc = "report"
    /\ Len(fuzzy_results) = 2
    /\ fuzzy_results[1][2] = fuzzy_results[2][2]
    /\ FLess(F_0_0, score)
    /\ disease = rules[1].disease

====
